---------------------------- MODULE Spec2Model ----------------------------
(***************************************************************************)
(* A model of src/image_chat_firebase.py: the ImageChatService behind the  *)
(* three Flask endpoints /chat, /process-image and /create-wallet-pass.    *)
(*                                                                         *)
(* Texts that the code inspects character by character (model replies that *)
(* are stripped, upper-cased, searched, un-fenced or parsed as JSON) are    *)
(* sequences of one-character strings over ASCII.  Texts that the code only *)
(* passes along (questions, answers, fixed messages) are TLA+ strings.      *)
(***************************************************************************)
EXTENDS Integers, Sequences, FiniteSets, TLC

(***************************************************************************)
(* Bounds of the model.                                                    *)
(***************************************************************************)
MaxPieces == 3
MaxRequests == 3

VARIABLES
  receipts,          \* the documents of the "receipts" collection, oldest first
  chat_history,      \* the documents of the "chat_history" collection, oldest first
  reqs,              \* per worker thread, the request it is serving
  issued,            \* the number of requests received so far
  fnName, fnArg, fnRes  \* a function applied on its own: name, argument, result

vars == <<receipts, chat_history, reqs, issued, fnName, fnArg, fnRes>>

(***************************************************************************)
(* Python str methods, on sequences of characters.                         *)
(***************************************************************************)
\* str.strip() with no argument removes these (ASCII) characters.
Whitespace == {" ", "\t", "\n", "\r", "\f"}

RECURSIVE LStrip(_)
LStrip(s) == IF s # <<>> /\ Head(s) \in Whitespace THEN LStrip(Tail(s)) ELSE s

RECURSIVE RStrip(_)
RStrip(s) ==
  IF s # <<>> /\ s[Len(s)] \in Whitespace THEN RStrip(SubSeq(s, 1, Len(s) - 1)) ELSE s

Strip(s) == RStrip(LStrip(s))

StartsWith(s, p) == Len(p) <= Len(s) /\ SubSeq(s, 1, Len(p)) = p

EndsWith(s, p) == Len(p) <= Len(s) /\ SubSeq(s, Len(s) - Len(p) + 1, Len(s)) = p

\* The test "p in s" of two strings.
Contains(s, p) ==
  \E i \in 1..(Len(s) - Len(p) + 1) : SubSeq(s, i, i + Len(p) - 1) = p

LowerLetters ==
  <<"a", "b", "c", "d", "e", "f", "g", "h", "i", "j", "k", "l", "m",
    "n", "o", "p", "q", "r", "s", "t", "u", "v", "w", "x", "y", "z">>

UpperLetters ==
  <<"A", "B", "C", "D", "E", "F", "G", "H", "I", "J", "K", "L", "M",
    "N", "O", "P", "Q", "R", "S", "T", "U", "V", "W", "X", "Y", "Z">>

UpperChar(c) ==
  IF \E i \in 1..26 : LowerLetters[i] = c
  THEN UpperLetters[CHOOSE i \in 1..26 : LowerLetters[i] = c]
  ELSE c

\* str.upper() on ASCII text.
Upper(s) == [i \in 1..Len(s) |-> UpperChar(s[i])]

\* str.replace(c, "") for a one-character c.
RECURSIVE RemoveChar(_, _)
RemoveChar(s, c) ==
  IF s = <<>> THEN <<>>
  ELSE IF Head(s) = c THEN RemoveChar(Tail(s), c)
  ELSE <<Head(s)>> \o RemoveChar(Tail(s), c)

RECURSIVE Concat(_)
Concat(ss) == IF ss = <<>> THEN <<>> ELSE Head(ss) \o Concat(Tail(ss))

(***************************************************************************)
(* _clean_llm_json_response                                                *)
(***************************************************************************)
\* The grave accent (ASCII 96), the character of a markdown code fence, written
\* as a token because the TLA+ lexer does not accept it inside a string.
Backtick == "<grave>"
Fence == <<Backtick, Backtick, Backtick>>
JsonFence == Fence \o <<"j", "s", "o", "n">>

DropPrefix(s, n) == SubSeq(s, n + 1, Len(s))
DropSuffix(s, n) == SubSeq(s, 1, Len(s) - n)

\* The bare marker tested before the JSON-tagged one.
CleanHeadBareFirst(text) ==
  IF StartsWith(text, Fence) THEN LStrip(DropPrefix(text, Len(Fence)))
  ELSE IF StartsWith(text, JsonFence) THEN LStrip(DropPrefix(text, Len(JsonFence)))
  ELSE text

CleanHead(text) ==
  IF StartsWith(text, JsonFence) THEN LStrip(DropPrefix(text, Len(JsonFence)))
  ELSE IF StartsWith(text, Fence) THEN LStrip(DropPrefix(text, Len(Fence)))
  ELSE text

CleanTail(text) ==
  IF EndsWith(text, Fence) THEN RStrip(DropSuffix(text, Len(Fence))) ELSE text

clean_llm_json_response(llm_response_text) ==
  CleanTail(CleanHead(Strip(llm_response_text)))

(***************************************************************************)
(* JSON values and json.loads.  A dict is the sequence of its <<key, value>>*)
(* pairs in insertion order, keys unique.  The parser follows the standard  *)
(* library's scanner on the grammar the model uses: objects, arrays, strings*)
(* without escapes, unsigned integers, and the literals null, true, false.  *)
(***************************************************************************)
JNull == [t |-> "null"]
JBool(b) == [t |-> "bool", b |-> b]
JNum(n) == [t |-> "num", n |-> n]
JStr(s) == [t |-> "str", s |-> s]
JArr(a) == [t |-> "arr", a |-> a]
JObj(m) == [t |-> "obj", m |-> m]

IsObj(v) == v.t = "obj"

\* "k in d", d[k], d.get(k, default) and d[k] = v of a dict.
DictHas(m, k) == \E i \in 1..Len(m) : m[i][1] = k
DictGet(m, k) == m[CHOOSE i \in 1..Len(m) : m[i][1] = k][2]
DictGetOr(m, k, default) == IF DictHas(m, k) THEN DictGet(m, k) ELSE default
DictSet(m, k, v) ==
  IF DictHas(m, k)
  THEN [i \in 1..Len(m) |-> IF m[i][1] = k THEN <<k, v>> ELSE m[i]]
  ELSE Append(m, <<k, v>>)

\* Python truthiness of a JSON value ("not v" is ~Truthy(v)).
Truthy(v) ==
  CASE v.t = "null" -> FALSE
    [] v.t = "bool" -> v.b
    [] v.t = "num" -> v.n # 0
    [] v.t = "str" -> v.s # <<>>
    [] v.t = "arr" -> v.a # <<>>
    [] v.t = "obj" -> v.m # <<>>

JsonWs == {" ", "\t", "\n", "\r"}
ControlChars == {"\t", "\n", "\r", "\f"}
Digits == <<"0", "1", "2", "3", "4", "5", "6", "7", "8", "9">>
IsDigit(c) == \E d \in 1..10 : Digits[d] = c
DigitVal(c) == (CHOOSE d \in 1..10 : Digits[d] = c) - 1

RECURSIVE SkipWs(_, _)
SkipWs(s, i) == IF i <= Len(s) /\ s[i] \in JsonWs THEN SkipWs(s, i + 1) ELSE i

ParseFail == [ok |-> FALSE, v |-> JNull, n |-> 0]
ParseOk(v, n) == [ok |-> TRUE, v |-> v, n |-> n]

HasAt(s, i, p) == i + Len(p) - 1 <= Len(s) /\ SubSeq(s, i, i + Len(p) - 1) = p

\* s[i] is the opening quote; the string runs to the next quote.
ParseString(s, i) ==
  IF \E j \in (i + 1)..Len(s) : s[j] = "\""
  THEN LET j == CHOOSE j \in (i + 1)..Len(s) :
                  s[j] = "\"" /\ \A k \in (i + 1)..(j - 1) : s[k] # "\""
       IN IF \E k \in (i + 1)..(j - 1) : s[k] \in ControlChars
          THEN ParseFail
          ELSE ParseOk(JStr(SubSeq(s, i + 1, j - 1)), j + 1)
  ELSE ParseFail

RECURSIVE DigitsEnd(_, _)
DigitsEnd(s, i) == IF i <= Len(s) /\ IsDigit(s[i]) THEN DigitsEnd(s, i + 1) ELSE i

RECURSIVE DigitsValue(_, _, _, _)
DigitsValue(s, i, e, acc) ==
  IF i >= e THEN acc ELSE DigitsValue(s, i + 1, e, 10 * acc + DigitVal(s[i]))

\* s[i] is a digit: 0, or a run of digits not starting with 0.
ParseNumber(s, i) ==
  IF s[i] = "0" THEN ParseOk(JNum(0), i + 1)
  ELSE LET e == DigitsEnd(s, i) IN ParseOk(JNum(DigitsValue(s, i, e, 0)), e)

RECURSIVE ParseValue(_, _), ParseMembers(_, _, _), ParseElements(_, _, _)

ParseValue(s, i) ==
  IF i > Len(s) THEN ParseFail
  ELSE IF s[i] = "\"" THEN ParseString(s, i)
  ELSE IF s[i] = "{" THEN
    LET j == SkipWs(s, i + 1) IN
      IF j <= Len(s) /\ s[j] = "}" THEN ParseOk(JObj(<<>>), j + 1)
      ELSE ParseMembers(s, j, <<>>)
  ELSE IF s[i] = "[" THEN
    LET j == SkipWs(s, i + 1) IN
      IF j <= Len(s) /\ s[j] = "]" THEN ParseOk(JArr(<<>>), j + 1)
      ELSE ParseElements(s, j, <<>>)
  ELSE IF IsDigit(s[i]) THEN ParseNumber(s, i)
  ELSE IF HasAt(s, i, <<"n", "u", "l", "l">>) THEN ParseOk(JNull, i + 4)
  ELSE IF HasAt(s, i, <<"t", "r", "u", "e">>) THEN ParseOk(JBool(TRUE), i + 4)
  ELSE IF HasAt(s, i, <<"f", "a", "l", "s", "e">>) THEN ParseOk(JBool(FALSE), i + 5)
  ELSE ParseFail

\* i is where a property name must start; acc holds the pairs read so far.
ParseMembers(s, i, acc) ==
  IF i > Len(s) \/ s[i] # "\"" THEN ParseFail
  ELSE LET k == ParseString(s, i) IN
    IF ~k.ok THEN ParseFail
    ELSE LET c == SkipWs(s, k.n) IN
      IF c > Len(s) \/ s[c] # ":" THEN ParseFail
      ELSE LET v == ParseValue(s, SkipWs(s, c + 1)) IN
        IF ~v.ok THEN ParseFail
        ELSE LET acc2 == DictSet(acc, k.v.s, v.v)
                 e == SkipWs(s, v.n)
             IN IF e > Len(s) THEN ParseFail
                ELSE IF s[e] = "}" THEN ParseOk(JObj(acc2), e + 1)
                ELSE IF s[e] = "," THEN ParseMembers(s, SkipWs(s, e + 1), acc2)
                ELSE ParseFail

\* i is where an element must start; acc holds the elements read so far.
ParseElements(s, i, acc) ==
  LET v == ParseValue(s, i) IN
    IF ~v.ok THEN ParseFail
    ELSE LET acc2 == Append(acc, v.v)
             e == SkipWs(s, v.n)
         IN IF e > Len(s) THEN ParseFail
            ELSE IF s[e] = "]" THEN ParseOk(JArr(acc2), e + 1)
            ELSE IF s[e] = "," THEN ParseElements(s, SkipWs(s, e + 1), acc2)
            ELSE ParseFail

\* json.loads(s): .ok is FALSE where the library raises JSONDecodeError.
json_loads(s) ==
  LET r == ParseValue(s, SkipWs(s, 1)) IN
    IF r.ok /\ SkipWs(s, r.n) = Len(s) + 1 THEN r ELSE ParseFail

(***************************************************************************)
(* _detect_intent, from the model's reply on.                              *)
(***************************************************************************)
PRICE_COMPARISON ==
  <<"P", "R", "I", "C", "E", "_", "C", "O", "M", "P", "A", "R", "I", "S", "O", "N">>
CREATE_PASS == <<"C", "R", "E", "A", "T", "E", "_", "P", "A", "S", "S">>
GENERAL_QUESTION ==
  <<"G", "E", "N", "E", "R", "A", "L", "_", "Q", "U", "E", "S", "T", "I", "O", "N">>

\* The two membership tests in the other order.
detect_intent_PassFirst(content) ==
  LET detected_intent == Upper(Strip(content)) IN
    IF Contains(detected_intent, CREATE_PASS) THEN "CREATE_PASS"
    ELSE IF Contains(detected_intent, PRICE_COMPARISON) THEN "PRICE_COMPARISON"
    ELSE "GENERAL_QUESTION"

detect_intent(content) ==
  LET detected_intent == Upper(Strip(content)) IN
    IF Contains(detected_intent, PRICE_COMPARISON) THEN "PRICE_COMPARISON"
    ELSE IF Contains(detected_intent, CREATE_PASS) THEN "CREATE_PASS"
    ELSE "GENERAL_QUESTION"

(***************************************************************************)
(* Dict keys and fixed texts.  A fixed message of the code is one token of *)
(* a text, so every text is a sequence of strings and f-strings are \o.     *)
(***************************************************************************)
K_error == <<"e", "r", "r", "o", "r">>
K_raw_response == <<"r", "a", "w", "_", "r", "e", "s", "p", "o", "n", "s", "e">>
K_user_id == <<"u", "s", "e", "r", "_", "i", "d">>
K_userId == <<"u", "s", "e", "r", "I", "d">>
K_items == <<"i", "t", "e", "m", "s">>
K_purchase_date == <<"p", "u", "r", "c", "h", "a", "s", "e", "_", "d", "a", "t", "e">>
K_purchase_place ==
  <<"p", "u", "r", "c", "h", "a", "s", "e", "_", "p", "l", "a", "c", "e">>
K_name == <<"n", "a", "m", "e">>
K_quantity == <<"q", "u", "a", "n", "t", "i", "t", "y">>

\* None where the code holds a Python None outside a JSON value.
NoneVal == <<"<None>">>

RECURSIVE Decimal(_)
Decimal(n) == IF n < 10 THEN <<Digits[n + 1]>> ELSE Decimal(n \div 10) \o <<Digits[(n % 10) + 1]>>

\* str(v) as an f-string formats it: a str is itself, the rest is its repr.
PyStr(v) ==
  CASE v.t = "str" -> v.s
    [] v.t = "null" -> <<"N", "o", "n", "e">>
    [] v.t = "bool" -> IF v.b THEN <<"T", "r", "u", "e">> ELSE <<"F", "a", "l", "s", "e">>
    [] v.t = "num" -> Decimal(v.n)
    [] v.t = "arr" -> <<"<repr of a list>">>
    [] v.t = "obj" -> <<"<repr of a dict>">>

Response(type, content) == [type |-> type, content |-> content]

Returned(v) == [kind |-> "return", value |-> v]
Raised(exc) == [kind |-> "raise", value |-> exc]
NoResult == [kind |-> "none", value |-> "none"]

(***************************************************************************)
(* create_grocery_pass (the definition in force, lines 395-404), from the  *)
(* model's reply on.  A parsed value that is not a dict has no item        *)
(* assignment by a str key: TypeError, which the except clause lets pass.  *)
(***************************************************************************)
\* raw_response taken from the cleaned text instead of the reply.
PassParseErrorCleaned(content) ==
  JObj(<< <<K_error, JStr(<<"Failed to parse grocery pass from LLM response.">>)>>,
          <<K_raw_response, JStr(clean_llm_json_response(content))>> >>)

PassParseError(content) ==
  JObj(<< <<K_error, JStr(<<"Failed to parse grocery pass from LLM response.">>)>>,
          <<K_raw_response, JStr(content)>> >>)

create_grocery_pass(content, user_id) ==
  LET raw_json_str == clean_llm_json_response(content)
      parsed == json_loads(raw_json_str)
  IN IF ~parsed.ok THEN Returned(PassParseError(content))
     ELSE IF ~IsObj(parsed.v) THEN Raised("TypeError")
     ELSE Returned(JObj(DictSet(parsed.v.m, K_user_id, JStr(user_id))))

(***************************************************************************)
(* _extract_json_from_image, from the model's reply on.                    *)
(***************************************************************************)
\* upload_timestamp.strftime('%Y-%m-%d'), the day of the call.
Today == JStr(<<"<today>">>)

ImageParseError(content) ==
  JObj(<< <<K_error, JStr(<<"Failed to parse content into JSON.">>)>>,
          <<K_raw_response, JStr(content)>> >>)

extract_json_from_image(content, user_id) ==
  LET raw_json_str == clean_llm_json_response(content)
      parsed == json_loads(raw_json_str)
  IN IF ~parsed.ok THEN Returned(ImageParseError(content))
     ELSE IF ~IsObj(parsed.v) THEN Raised("TypeError")
     ELSE LET d1 == DictSet(parsed.v.m, K_userId, JStr(user_id))
              d2 == IF ~Truthy(DictGetOr(d1, K_purchase_date, JNull))
                    THEN DictSet(d1, K_purchase_date, Today)
                    ELSE d1
          IN Returned(JObj(d2))

\* The document process_and_save_image builds (its two timestamps left out:
\* the store keeps documents in the order they were added).
ReceiptDoc(extracted_data, user_id) ==
  [user_id |-> user_id,
   items |-> DictGetOr(extracted_data.m, K_items, JArr(<<>>)),
   purchase_date |-> DictGetOr(extracted_data.m, K_purchase_date, JNull),
   purchase_place |-> DictGetOr(extracted_data.m, K_purchase_place, JNull)]

(***************************************************************************)
(* The inputs of the model: what clients send and what the collaborators   *)
(* (the language model, the HTTP endpoints) answer.                        *)
(***************************************************************************)
Q == <<"\"">>
NL == <<"\n">>

\* The threads of the server that serve requests concurrently.
Workers == {"w1", "w2"}

\* A userId of "" stands for the empty and the absent (None) id alike.
UserIds == {<<>>, <<"u", "1">>, <<"u", "2">>}

\* The bodies of POST /chat: question, userId, sessionId ("" when absent).
AskInputs ==
  { [question |-> <<"q1">>, user_id |-> <<>>, session_id |-> <<"s", "1">>],
    [question |-> <<"q1">>, user_id |-> <<"u", "1">>, session_id |-> <<>>],
    [question |-> <<"q2">>, user_id |-> <<"u", "1">>, session_id |-> <<"s", "1">>],
    [question |-> <<"q1">>, user_id |-> <<"u", "2">>, session_id |-> <<"s", "2">>] }
Answers == {<<"a1">>}
Images == {<<"img1">>}
Emails == {<<"a", "@", "x">>}

IntentReplies ==
  { PRICE_COMPARISON,
    <<" ", "c", "r", "e", "a", "t", "e", "_", "p", "a", "s", "s", "\n">>,
    <<"I", "n", "t", "e", "n", "t", ":", " ">> \o GENERAL_QUESTION,
    CREATE_PASS \o <<" ">> \o PRICE_COMPARISON }

ProductReplies ==
  { <<>>, Q \o Q, <<" ">> \o Q \o <<"e", "g", "g", "s">> \o Q \o NL }

\* Replies to the pass prompt and to the receipt prompt.
ObjItems == <<"{">> \o Q \o K_items \o Q \o <<":", "[", "]", "}">>
ObjUser ==
  <<"{">> \o Q \o K_user_id \o Q \o <<":">> \o Q \o <<"m">> \o Q \o <<",">>
    \o Q \o K_items \o Q \o <<":", "[", "1", "]", "}">>
ObjError == <<"{">> \o Q \o K_error \o Q \o <<":">> \o Q \o <<"x">> \o Q \o <<"}">>
ObjPlace ==
  <<"{">> \o Q \o K_purchase_place \o Q \o <<":">> \o Q \o <<"p">> \o Q \o <<"}">>
NotJson == <<" ", "o", "o", "p", "s", "\n">>
Truncated == JsonFence \o NL \o <<"{">> \o Q \o K_items \o Q \o <<":", "[">> \o NL \o Fence

PassReplies ==
  { ObjItems, <<" ">> \o JsonFence \o NL \o ObjUser \o NL \o Fence \o NL,
    NotJson, Truncated, ObjError, <<"[", "]">> }

ImageReplies ==
  { JsonFence \o NL \o ObjPlace \o NL \o Fence, NotJson, ObjError, <<"[", "]">> }

\* What the location lookup (ipapi.co) answers: a fault, or a JSON object.
K_city == <<"c", "i", "t", "y">>
K_region == <<"r", "e", "g", "i", "o", "n">>
K_country_name == <<"c", "o", "u", "n", "t", "r", "y", "_", "n", "a", "m", "e">>
LocationOutcomes ==
  { [kind |-> "fault"],
    [kind |-> "ok",
     body |-> JObj(<< <<K_city, JStr(<<"Pune">>)>>,
                      <<K_country_name, JStr(<<"India">>)>> >>)] }

\* What the search call answers: an HTTP error status, a network fault, or a
\* JSON object with or without the listings field.
SearchItems == JObj(<< <<K_items, JArr(<<JNum(1)>>)>> >>)
SearchEmpty == JObj(<<>>)
SearchOutcomes ==
  { [kind |-> "http_error", status |-> 403], [kind |-> "network_error"],
    [kind |-> "ok", body |-> SearchItems], [kind |-> "ok", body |-> SearchEmpty] }

\* What the wallet endpoint answers to the class lookup and to the create.
ClassGetOutcomes == {"200", "404", "500", "network_error"}
ClassPostOutcomes == {"200", "409", "network_error"}

PassItem(name, quantity) == JObj(<< <<K_name, JStr(name)>>, <<K_quantity, JNum(quantity)>> >>)
PassPayloads ==
  { JObj(<< <<K_user_id, JStr(<<"u", "1">>)>>,
            <<K_items, JArr(<<PassItem(<<"m", "i", "l", "k">>, 2), JObj(<<>>)>>)>> >>),
    JObj(<<>>) }

(***************************************************************************)
(* _get_user_location and _search_prices_tool, from the answers on.        *)
(***************************************************************************)
Unknown == JStr(<<"Unknown">>)

get_user_location(outcome) ==
  IF outcome.kind = "ok"
  THEN [city |-> DictGetOr(outcome.body.m, K_city, Unknown).s,
        region |-> DictGetOr(outcome.body.m, K_region, Unknown).s,
        country |-> DictGetOr(outcome.body.m, K_country_name, Unknown).s]
  ELSE [city |-> <<"Unknown">>, region |-> <<"Unknown">>, country |-> <<"United States">>]

MissingCredentials ==
  [available |-> FALSE, error |-> <<"Price search unavailable - missing API credentials">>]

SearchQuery(query, location) ==
  query \o <<" best prices in ">> \o location.city \o <<" ">> \o location.country
    \o <<", more emphasis on online availability and country">>

search_prices_result(outcome) ==
  CASE outcome.kind = "ok" -> [available |-> TRUE, results |-> outcome.body]
    [] outcome.kind = "http_error" ->
         [available |-> FALSE,
          error |-> <<"API returned status ">> \o Decimal(outcome.status)]
    [] outcome.kind = "network_error" ->
         [available |-> FALSE, error |-> <<"Network or request error: ", "<str(e)>">>]

(***************************************************************************)
(* The texts of the Routed Responses.                                      *)
(***************************************************************************)
UserIdRequired == Response("error", <<"User ID is required.">>)

WhichProduct ==
  Response("text", <<"I'm sorry, I couldn't understand which product you're asking about. Please be more specific.">>)

\* The unavailability message sent as an error response.
SearchUnavailableAsError(error_msg) ==
  Response("error", <<"I couldn't search for prices right now. Reason: ">> \o error_msg)

SearchUnavailable(error_msg) ==
  Response("text", <<"I couldn't search for prices right now. Reason: ">> \o error_msg)

NoListings(product_query) ==
  Response("text",
           <<"I couldn't find any specific online listings for '">> \o product_query
             \o <<"'. You could try a broader search term.">>)

NoReceipts ==
  Response("text", <<"No receipt data found. Please upload a receipt image first.">>)

PassFailed(reason) ==
  Response("error", <<"Sorry, failed to create grocery pass: ">> \o PyStr(reason))

\* Lines 303-307 of answer_question: the builder's dict, wrapped.
WrapPass(pass_data) ==
  IF DictHas(pass_data.m, K_error)
  THEN PassFailed(DictGet(pass_data.m, K_error))
  ELSE Response("PASS_BUILDER", pass_data)

\* The guard as "if user_id is None": an empty id passes it.
UserIdMissingNoneOnly(user_id) == user_id = NoneVal

\* "if not user_id", line 292.
UserIdMissing(user_id) == user_id = <<>>

\* The elif tested against the wrong label: a pass request falls to the else.
HandlerForPassMisspelt(intent) ==
  CASE intent = "PRICE_COMPARISON" -> "_handle_price_comparison"
    [] intent = "CREATE_GROCERY_PASS" -> "create_grocery_pass"
    [] OTHER -> "_handle_receipt_question"

\* The handler answer_question starts for a label, lines 298-310.
HandlerFor(intent) ==
  CASE intent = "PRICE_COMPARISON" -> "_handle_price_comparison"
    [] intent = "CREATE_PASS" -> "create_grocery_pass"
    [] OTHER -> "_handle_receipt_question"

(***************************************************************************)
(* The requests.  A worker's record holds the arguments and local          *)
(* variables of the call it serves, the position it has reached (pc), and,  *)
(* as history, the external calls made (calls), the handlers started        *)
(* (handlers) and the size of the receipts store when the request came in.  *)
(***************************************************************************)
IdleReq ==
  [op |-> "idle", pc |-> "idle", user_id |-> <<>>, question |-> <<>>,
   session_id |-> <<>>, arg |-> <<>>, pass_in |-> JNull,
   intent |-> "", handlers |-> <<>>, calls |-> <<>>,
   product_query |-> <<>>, search_query |-> <<>>, search_results |-> JNull,
   user_receipts |-> <<>>, recent_chats |-> <<>>,
   content |-> <<>>, pass_data |-> NoResult, class_created |-> "unset",
   receipts_at_start |-> 0, result |-> NoResult]

Finish(r, result) == [r EXCEPT !.pc = "done", !.result = result]

Call(r, name, pc) == [r EXCEPT !.calls = Append(@, name), !.pc = pc]

(***************************************************************************)
(* answer_question and its handlers, one operator per stretch of code      *)
(* between two external calls.                                             *)
(***************************************************************************)
\* Lines 290-295: the guard, then the classification call.
AnswerQuestionStart(r) ==
  IF UserIdMissing(r.user_id) THEN Finish(r, Returned(UserIdRequired))
  ELSE Call(r, "llm:intent", "detect")

\* Lines 295-310: the label, then the first call of the handler it selects.
Dispatch(r, intent) ==
  LET h == HandlerFor(intent)
      r1 == [r EXCEPT !.intent = intent, !.handlers = Append(@, h)]
  IN CASE h = "_handle_price_comparison" -> Call(r1, "llm:extract", "extract")
       [] h = "create_grocery_pass" -> Call(r1, "llm:pass", "build")
       [] OTHER -> [r1 EXCEPT !.pc = "qa_receipts"]

\* The handler without the test of line 249: every available result is
\* handed to the synthesis call.
PriceSearchedNoItemsTest(r, search_results) ==
  LET r1 == [r EXCEPT !.search_results = search_results] IN
    IF ~search_results.available
    THEN Finish(r1, Returned(SearchUnavailable(search_results.error)))
    ELSE Call(r1, "llm:synthesis", "synth")

\* Lines 245-258 of _handle_price_comparison, once the search tool has returned.
PriceSearched(r, search_results) ==
  LET r1 == [r EXCEPT !.search_results = search_results] IN
    IF ~search_results.available
    THEN Finish(r1, Returned(SearchUnavailable(search_results.error)))
    ELSE IF ~DictHas(search_results.results.m, K_items)
    THEN Finish(r1, Returned(NoListings(r.product_query)))
    ELSE Call(r1, "llm:synthesis", "synth")

\* Lines 237-243 and 193-199: the product name, then the search tool up to
\* its location lookup.
PriceExtracted(r, content, configured) ==
  LET product_query == RemoveChar(Strip(content), "\"")
      r1 == [r EXCEPT !.product_query = product_query]
  IN IF product_query = <<>> THEN Finish(r1, Returned(WhichProduct))
     ELSE IF ~configured THEN PriceSearched(r1, MissingCredentials)
     ELSE Call(r1, "http:location", "locate")

\* Lines 199-205: the location, then the search call.
PriceLocated(r, outcome) ==
  Call([r EXCEPT !.search_query = SearchQuery(r.product_query, get_user_location(outcome))],
       "http:search", "search")

\* Lines 302-307: the builder's outcome, wrapped by the router.
PassBuilt(r, content) ==
  LET pass_data == create_grocery_pass(content, r.user_id)
      r1 == [r EXCEPT !.content = content, !.pass_data = pass_data]
  IN IF pass_data.kind = "raise" THEN Finish(r1, pass_data)
     ELSE Finish(r1, Returned(WrapPass(pass_data.value)))

\* The receipts query filtered by the requesting user.
ReceiptsReadOwnOnly(r, store) ==
  LET own == SelectSeq(store, LAMBDA e : e.doc.user_id = r.user_id)
      user_receipts == [i \in 1..Len(own) |-> own[i].doc]
      r1 == [r EXCEPT !.calls = Append(@, "db:receipts.stream"),
                      !.user_receipts = user_receipts]
  IN IF user_receipts = <<>> THEN Finish(r1, Returned(NoReceipts))
     ELSE [r1 EXCEPT !.pc = "qa_chats"]

\* Lines 263-266: every document of the receipts collection, whoever owns it.
ReceiptsRead(r, store) ==
  LET user_receipts == [i \in 1..Len(store) |-> store[i].doc]
      r1 == [r EXCEPT !.calls = Append(@, "db:receipts.stream"),
                      !.user_receipts = user_receipts]
  IN IF user_receipts = <<>> THEN Finish(r1, Returned(NoReceipts))
     ELSE [r1 EXCEPT !.pc = "qa_chats"]

Reverse(s) == [i \in 1..Len(s) |-> s[Len(s) + 1 - i]]
Take(s, n) == SubSeq(s, 1, IF Len(s) < n THEN Len(s) ELSE n)
HistoryLimit == 10

\* Lines 268-270: the requesting user's entries, newest first, at most ten.
RecentChats(history, user_id) ==
  Take(Reverse(SelectSeq(history, LAMBDA e : e.user_id = user_id)), HistoryLimit)

\* Lines 268-278: the history query, then the model call.
ChatsRead(r, history) ==
  Call([r EXCEPT !.calls = Append(@, "db:chat_history.query"),
                 !.recent_chats = RecentChats(history, r.user_id)],
       "llm:answer", "qa_llm")

\* Lines 281-284; the timestamp is the entry's place in the collection.
ChatEntry(r, answer) ==
  [user_id |-> r.user_id, question |-> r.question, answer |-> answer,
   session_id |-> IF r.session_id = <<>> THEN NoneVal ELSE r.session_id]

(***************************************************************************)
(* create_wallet_pass_jwt                                                  *)
(***************************************************************************)
IssuerId == <<"<ISSUER_ID>">>
ClassId == IssuerId \o <<".project_grocery_list">>

RECURSIVE ReplaceAt(_)
ReplaceAt(s) ==
  IF s = <<>> THEN <<>>
  ELSE (IF Head(s) = "@" THEN <<"_", "a", "t", "_">> ELSE <<Head(s)>>) \o ReplaceAt(Tail(s))

TextModules(pass_data) ==
  LET items == DictGetOr(pass_data.m, K_items, JArr(<<>>)).a IN
    [i \in 1..Len(items) |->
       [id |-> <<"item_">> \o Decimal(i - 1),
        header |-> PyStr(DictGetOr(items[i].m, K_name, JStr(<<"Unknown Item">>))),
        body |-> <<"Quantity: ">> \o PyStr(DictGetOr(items[i].m, K_quantity, JNum(1)))]]

\* Lines 134-159.
PassObject(user_email, pass_data, now) ==
  LET object_id == IssuerId \o <<".">> \o ReplaceAt(user_email) \o <<"-">> \o Decimal(now) IN
    [id |-> object_id, classId |-> ClassId, header |-> user_email,
     barcode |-> object_id, textModulesData |-> TextModules(pass_data)]

\* Lines 161-172: the claims, signed with the service account's key.
SaveUrl(user_email, pass_data, now) ==
  [saveUrl |->
     [prefix |-> "https://pay.google.com/gp/v/save/",
      token |-> [iss |-> "service_account_email", aud |-> "google",
                 typ |-> "savetowallet", alg |-> "RS256", key |-> "private_key",
                 payload |-> <<PassObject(user_email, pass_data, now)>>]]]

\* _create_pass_class, lines 104-111: what the lookup's answer decides.
ClassAfterGet(outcome) ==
  CASE outcome = "200" -> "True"
    [] outcome = "404" -> "create"
    [] OTHER -> "False"

\* _create_pass_class, lines 121-127: what the create's answer decides.
ClassAfterPost(outcome) == IF outcome = "200" THEN "True" ELSE "False"

\* Lines 132-172 after _create_pass_class has returned class_created: its
\* value is dropped (line 132 is an expression statement).
PassSigned(r, class_created, now, signed) ==
  LET r1 == [r EXCEPT !.class_created = class_created] IN
    IF signed THEN Finish(r1, Returned(SaveUrl(r.arg, r.pass_in, now)))
    ELSE Finish(r1, Raised("SigningError"))

(***************************************************************************)
(* process_and_save_image, lines 375-393, from the model's reply on: the   *)
(* request's next record and the store's next value.  The identifier the    *)
(* store generates for a new document is its place in the collection.       *)
(***************************************************************************)
ImageProcessed(r, content, store) ==
  LET extracted_data == extract_json_from_image(content, r.user_id)
      r1 == [r EXCEPT !.content = content]
  IN IF extracted_data.kind = "raise"
     THEN [req |-> Finish(r1, extracted_data), store |-> store]
     ELSE IF DictHas(extracted_data.value.m, K_error)
     THEN [req |-> Finish(r1, Raised("ValueError")), store |-> store]
     ELSE LET doc_id == Len(store) + 1 IN
       [req |-> Finish(Call(r1, "db:receipts.add", "done"), Returned(doc_id)),
        store |-> Append(store, [id |-> doc_id,
                                 doc |-> ReceiptDoc(extracted_data.value, r.user_id)])]

(***************************************************************************)
(* The service as a state machine.                                         *)
(***************************************************************************)
\* int(datetime.now().timestamp()) at the moments a pass is built.
Seconds == {1754000000}

FnIdle == [done |-> FALSE]

ServiceIdle ==
  /\ receipts = <<>>
  /\ chat_history = <<>>
  /\ reqs = [w \in Workers |-> IdleReq]
  /\ issued = 0

Init ==
  /\ ServiceIdle
  /\ fnName = "none" /\ fnArg = <<>> /\ fnRes = FnIdle

Fn == <<fnName, fnArg, fnRes>>

Free(w) == reqs[w].op = "idle" /\ issued < MaxRequests

\* Only the worker's own record changes.
Step(w, r) ==
  /\ reqs' = [reqs EXCEPT ![w] = r]
  /\ UNCHANGED <<receipts, chat_history, issued, Fn>>

\* POST /chat
StartAsk(w) ==
  /\ Free(w)
  /\ \E in \in AskInputs :
       reqs' = [reqs EXCEPT ![w] =
                  AnswerQuestionStart([IdleReq EXCEPT !.op = "ask", !.pc = "start",
                                         !.question = in.question, !.user_id = in.user_id,
                                         !.session_id = in.session_id,
                                         !.receipts_at_start = Len(receipts)])]
  /\ issued' = issued + 1
  /\ UNCHANGED <<receipts, chat_history, Fn>>

\* POST /process-image
StartImage(w) ==
  /\ Free(w)
  /\ \E img \in Images, u \in UserIds \ {<<>>} :
       reqs' = [reqs EXCEPT ![w] =
                  Call([IdleReq EXCEPT !.op = "image", !.arg = img, !.user_id = u,
                                       !.receipts_at_start = Len(receipts)],
                       "llm:image", "extract_image")]
  /\ issued' = issued + 1
  /\ UNCHANGED <<receipts, chat_history, Fn>>

\* POST /create-wallet-pass
StartJwt(w) ==
  /\ Free(w)
  /\ \E email \in Emails, pd \in PassPayloads :
       reqs' = [reqs EXCEPT ![w] =
                  Call([IdleReq EXCEPT !.op = "jwt", !.arg = email, !.pass_in = pd,
                                       !.receipts_at_start = Len(receipts)],
                       "http:class.get", "class_get")]
  /\ issued' = issued + 1
  /\ UNCHANGED <<receipts, chat_history, Fn>>

\* self.llm.invoke raises: nothing in the service catches it.
LLMPending == {"detect", "extract", "synth", "build", "qa_llm", "extract_image"}

LLMFault(w) ==
  /\ reqs[w].pc \in LLMPending
  /\ Step(w, Finish(reqs[w], Raised("LLMError")))

DetectReturn(w) ==
  /\ reqs[w].pc = "detect"
  /\ \E content \in IntentReplies : Step(w, Dispatch(reqs[w], detect_intent(content)))

\* configured: os.getenv finds both GOOGLE_API_KEY and SEARCH_ENGINE_ID.
ExtractReturn(w) ==
  /\ reqs[w].pc = "extract"
  /\ \E content \in ProductReplies, configured \in BOOLEAN :
       Step(w, PriceExtracted(reqs[w], content, configured))

LocationReturn(w) ==
  /\ reqs[w].pc = "locate"
  /\ \E outcome \in LocationOutcomes : Step(w, PriceLocated(reqs[w], outcome))

SearchReturn(w) ==
  /\ reqs[w].pc = "search"
  /\ \E outcome \in SearchOutcomes :
       Step(w, PriceSearched(reqs[w], search_prices_result(outcome)))

SynthesisReturn(w) ==
  /\ reqs[w].pc = "synth"
  /\ \E answer \in Answers : Step(w, Finish(reqs[w], Returned(Response("text", answer))))

BuildReturn(w) ==
  /\ reqs[w].pc = "build"
  /\ \E content \in PassReplies : Step(w, PassBuilt(reqs[w], content))

ReadReceipts(w) ==
  /\ reqs[w].pc = "qa_receipts"
  /\ Step(w, ReceiptsRead(reqs[w], receipts))

ReadChats(w) ==
  /\ reqs[w].pc = "qa_chats"
  /\ Step(w, ChatsRead(reqs[w], chat_history))

\* The entry written to one document per user, set(): a user's new entry
\* replaces the one the user had.
AnswerReturnOneDocPerUser(w) ==
  /\ reqs[w].pc = "qa_llm"
  /\ \E answer \in Answers :
       /\ chat_history' =
            Append(SelectSeq(chat_history, LAMBDA e : e.user_id # reqs[w].user_id),
                   ChatEntry(reqs[w], answer))
       /\ reqs' = [reqs EXCEPT ![w] =
                     Finish(Call(reqs[w], "db:chat_history.add", "done"),
                            Returned(Response("text", answer)))]
  /\ UNCHANGED <<receipts, issued, Fn>>

\* Lines 278-286: the answer, the new chat entry, the response.
AnswerReturn(w) ==
  /\ reqs[w].pc = "qa_llm"
  /\ \E answer \in Answers :
       /\ chat_history' = Append(chat_history, ChatEntry(reqs[w], answer))
       /\ reqs' = [reqs EXCEPT ![w] =
                     Finish(Call(reqs[w], "db:chat_history.add", "done"),
                            Returned(Response("text", answer)))]
  /\ UNCHANGED <<receipts, issued, Fn>>

ImageReturn(w) ==
  /\ reqs[w].pc = "extract_image"
  /\ \E content \in ImageReplies :
       LET next == ImageProcessed(reqs[w], content, receipts) IN
         /\ reqs' = [reqs EXCEPT ![w] = next.req]
         /\ receipts' = next.store
  /\ UNCHANGED <<chat_history, issued, Fn>>

ClassGetReturn(w) ==
  /\ reqs[w].pc = "class_get"
  /\ \E outcome \in ClassGetOutcomes :
       LET c == ClassAfterGet(outcome) IN
         IF c = "create" THEN Step(w, Call(reqs[w], "http:class.post", "class_post"))
         ELSE \E now \in Seconds, signed \in BOOLEAN :
                Step(w, PassSigned(reqs[w], c, now, signed))

ClassPostReturn(w) ==
  /\ reqs[w].pc = "class_post"
  /\ \E outcome \in ClassPostOutcomes, now \in Seconds, signed \in BOOLEAN :
       Step(w, PassSigned(reqs[w], ClassAfterPost(outcome), now, signed))

\* The endpoint sends the HTTP response; the thread is free again.
Deliver(w) ==
  /\ reqs[w].pc = "done"
  /\ Step(w, IdleReq)

Next ==
  \E w \in Workers :
    \/ StartAsk(w)
    \/ StartImage(w)
    \/ StartJwt(w)
    \/ LLMFault(w)
    \/ DetectReturn(w)
    \/ ExtractReturn(w)
    \/ LocationReturn(w)
    \/ SearchReturn(w)
    \/ SynthesisReturn(w)
    \/ BuildReturn(w)
    \/ ReadReceipts(w)
    \/ ReadChats(w)
    \/ AnswerReturn(w)
    \/ ImageReturn(w)
    \/ ClassGetReturn(w)
    \/ ClassPostReturn(w)
    \/ Deliver(w)

Spec == Init /\ [][Next]_vars

(***************************************************************************)
(* The text functions applied on their own: the argument is any text made  *)
(* of at most MaxPieces pieces, and one step applies the function.         *)
(***************************************************************************)
Texts(pieces) ==
  UNION { { Concat(f) : f \in [1..k -> pieces] } : k \in 0..MaxPieces }

IntentPieces ==
  { PRICE_COMPARISON, CREATE_PASS, GENERAL_QUESTION,
    <<"P", "R", "I", "C", "E", "_">>,
    <<"c", "o", "m", "p", "a", "r", "i", "s", "o", "n">>,
    <<"c", "r", "e", "a", "t", "e", "_", "p", "a", "s", "s">>,
    <<" ">>, <<"\n">>, <<"x">> }

CleanPieces ==
  { Fence, <<Backtick>>, <<"j", "s", "o", "n">>, <<" ">>, NL, <<"{", "}">>, <<"x">> }

PassPieces ==
  { JsonFence, Fence, NL, <<" ">>, ObjItems, ObjError, <<"[", "]">>, <<"{">>, <<"7">> }

FnUser == <<"u", "1">>

\* A text inside a JSON-tagged and inside a bare code fence, the fence
\* markers on lines of their own (Block) or directly around the text (Tight).
JsonBlock(c) == JsonFence \o NL \o c \o NL \o Fence
BareBlock(c) == Fence \o NL \o c \o NL \o Fence
JsonTight(c) == JsonFence \o c \o Fence
BareTight(c) == Fence \o c \o Fence

CleanerResults(c) ==
  [plain |-> clean_llm_json_response(c),
   json_block |-> clean_llm_json_response(JsonBlock(c)),
   bare_block |-> clean_llm_json_response(BareBlock(c)),
   json_tight |-> clean_llm_json_response(JsonTight(c)),
   bare_tight |-> clean_llm_json_response(BareTight(c)),
   twice |-> clean_llm_json_response(clean_llm_json_response(c))]

FnInit ==
  /\ ServiceIdle
  /\ fnRes = FnIdle
  /\ \/ fnName = "_detect_intent" /\ fnArg \in Texts(IntentPieces)
     \/ fnName = "_clean_llm_json_response" /\ fnArg \in Texts(CleanPieces)
     \/ fnName = "create_grocery_pass" /\ fnArg \in Texts(PassPieces)

Apply(name, result) ==
  /\ fnName = name
  /\ ~fnRes.done
  /\ fnRes' = [done |-> TRUE, v |-> result]
  /\ UNCHANGED <<receipts, chat_history, reqs, issued, fnName, fnArg>>

ApplyDetectIntent == Apply("_detect_intent", detect_intent(fnArg))

ApplyCleaner == Apply("_clean_llm_json_response", CleanerResults(fnArg))

ApplyCreatePass == Apply("create_grocery_pass", create_grocery_pass(fnArg, FnUser))

FnNext == ApplyDetectIntent \/ ApplyCleaner \/ ApplyCreatePass

FnSpec == FnInit /\ [][FnNext]_vars

(***************************************************************************)
(* The properties.                                                         *)
(***************************************************************************)
Last(s) == s[Len(s)]

Asks(w) == reqs[w].op = "ask"

ReturnedOfType(r, type) == r.result.kind = "return" /\ r.result.value.type = type

ReturnedText(r, type, content) ==
  ReturnedOfType(r, type) /\ r.result.value.content = content

\* C1: a question with an empty user id is answered at once with the error
\* 'User ID is required.': the request makes no model, search, location or
\* store call and starts no handler.
C1_EmptyUserIdRejected ==
  \A w \in Workers :
    (Asks(w) /\ reqs[w].user_id = <<>>) =>
      /\ reqs[w].pc = "done"
      /\ ReturnedText(reqs[w], "error", <<"User ID is required.">>)
      /\ reqs[w].calls = <<>>
      /\ reqs[w].handlers = <<>>
      /\ reqs[w].intent = ""

\* An empty-id question answered while the store holds a receipt and another
\* request is being served.
C1_Witness ==
  \E w, v \in Workers :
    /\ Asks(w) /\ reqs[w].user_id = <<>> /\ reqs[w].pc = "done"
    /\ receipts # <<>>
    /\ v # w /\ reqs[v].op # "idle"

\* The upper-cased reply holds the word at some position, spelled out.
HoldsWord(reply, word) ==
  \E i \in 1..Len(reply) :
    /\ i + Len(word) - 1 <= Len(reply)
    /\ \A k \in 1..Len(word) : UpperChar(reply[i + k - 1]) = word[k]

\* C2: the label is PRICE_COMPARISON if the upper-cased reply contains that
\* word (whether or not it contains CREATE_PASS), else CREATE_PASS if it
\* contains that word, else GENERAL_QUESTION.
C2_IntentLabel ==
  (fnName = "_detect_intent" /\ fnRes.done) =>
    /\ fnRes.v \in {"PRICE_COMPARISON", "CREATE_PASS", "GENERAL_QUESTION"}
    /\ fnRes.v = "PRICE_COMPARISON" <=> HoldsWord(fnArg, PRICE_COMPARISON)
    /\ fnRes.v = "CREATE_PASS" <=>
         (HoldsWord(fnArg, CREATE_PASS) /\ ~HoldsWord(fnArg, PRICE_COMPARISON))

\* A reply in lower case that names both intents, the pass first.
C2_Witness ==
  /\ fnName = "_detect_intent" /\ fnRes.done
  /\ fnArg = <<"c", "r", "e", "a", "t", "e", "_", "p", "a", "s", "s">>
               \o <<"P", "R", "I", "C", "E", "_">>
               \o <<"c", "o", "m", "p", "a", "r", "i", "s", "o", "n">>
  /\ fnRes.v = "PRICE_COMPARISON"

\* The calls each handler makes, and no other handler does.
CallsOf(handler) ==
  CASE handler = "_handle_price_comparison" ->
         {"llm:extract", "http:location", "http:search", "llm:synthesis"}
    [] handler = "create_grocery_pass" -> {"llm:pass"}
    [] handler = "_handle_receipt_question" ->
         {"db:receipts.stream", "db:chat_history.query", "llm:answer", "db:chat_history.add"}

Labelled(w) == reqs[w].intent # ""

\* The classification call of the request raised.
ClassificationFaulted(w) ==
  /\ reqs[w].pc = "done" /\ reqs[w].result = Raised("LLMError")
  /\ reqs[w].calls = <<"llm:intent">>

\* C3 as stated: every finished question with a user id has started exactly
\* one handler.
C3_AlwaysOneHandler ==
  \A w \in Workers :
    (Asks(w) /\ reqs[w].user_id # <<>> /\ reqs[w].pc = "done") =>
      Len(reqs[w].handlers) = 1

\* C3, amended: a question with a user id starts no handler while its
\* classification call is pending or when that call raised; once the call
\* has returned a label the request has started exactly one handler, the one
\* of the label, after the classification call, and every later call of the
\* request is a call of that handler.
C3_OneHandlerOnceClassified ==
  \A w \in Workers :
    (Asks(w) /\ reqs[w].user_id # <<>>) =>
      /\ Len(reqs[w].handlers) <= 1
      /\ ~Labelled(w) <=> (reqs[w].pc = "detect" \/ ClassificationFaulted(w))
      /\ ~Labelled(w) => reqs[w].handlers = <<>>
      /\ Labelled(w) =>
           /\ reqs[w].calls[1] = "llm:intent"
           /\ reqs[w].intent = "PRICE_COMPARISON" =>
                reqs[w].handlers = <<"_handle_price_comparison">>
           /\ reqs[w].intent = "CREATE_PASS" =>
                reqs[w].handlers = <<"create_grocery_pass">>
           /\ reqs[w].intent = "GENERAL_QUESTION" =>
                reqs[w].handlers = <<"_handle_receipt_question">>
           /\ \A i \in 2..Len(reqs[w].calls) :
                reqs[w].calls[i] \in CallsOf(reqs[w].handlers[1])

\* A pass request that ran its handler to the end while the other thread
\* serves a question classified as a price comparison.
C3_Witness ==
  \E w, v \in Workers :
    /\ Asks(w) /\ reqs[w].pc = "done" /\ reqs[w].intent = "CREATE_PASS"
    /\ reqs[w].calls = <<"llm:intent", "llm:pass">>
    /\ Asks(v) /\ reqs[v].intent = "PRICE_COMPARISON" /\ reqs[v].pc = "search"

\* The cleaned reply of a finished pass request, parsed.
ParsedReply(w) == json_loads(clean_llm_json_response(reqs[w].content))

\* C4 as stated: when the builder's cleaned reply parsed as a JSON object the
\* response is PASS_BUILDER with that object and the request's user_id; when
\* it did not parse the response is the error with the builder's reason.
C4_PassWrapped ==
  \A w \in Workers :
    (Asks(w) /\ reqs[w].pc = "done" /\ reqs[w].intent = "CREATE_PASS"
       /\ reqs[w].pass_data.kind = "return") =>
      /\ (ParsedReply(w).ok /\ IsObj(ParsedReply(w).v)) =>
           /\ ReturnedOfType(reqs[w], "PASS_BUILDER")
           /\ reqs[w].result.value.content =
                JObj(DictSet(ParsedReply(w).v.m, K_user_id, JStr(reqs[w].user_id)))
      /\ ~ParsedReply(w).ok =>
           ReturnedText(reqs[w], "error",
                        <<"Sorry, failed to create grocery pass: ",
                          "Failed to parse grocery pass from LLM response.">>)

\* C5: for a reply that is not valid JSON after cleaning, create_grocery_pass
\* returns a dict with exactly the keys error and raw_response, raw_response
\* being the reply as received.
C5_RawResponseKept ==
  (fnName = "create_grocery_pass" /\ fnRes.done
     /\ ~json_loads(clean_llm_json_response(fnArg)).ok) =>
    /\ fnRes.v.kind = "return"
    /\ IsObj(fnRes.v.value)
    /\ Len(fnRes.v.value.m) = 2
    /\ fnRes.v.value.m[1][1] = K_error
    /\ fnRes.v.value.m[2] = <<K_raw_response, JStr(fnArg)>>

\* A fenced reply, broken off inside the object, with a blank before the fence.
C5_Witness ==
  /\ fnName = "create_grocery_pass" /\ fnRes.done
  /\ fnArg = <<" ">> \o JsonFence \o <<"{">>
  /\ fnRes.v.kind = "return"
  /\ DictGet(fnRes.v.value.m, K_raw_response) = JStr(fnArg)

Cleaned == fnName = "_clean_llm_json_response" /\ fnRes.done

\* C6 as stated: for every text c the cleaner gives strip(c) for c in a
\* JSON-tagged fence, in a bare fence and unfenced, and cleaning the result
\* again changes nothing.
C6_FencesAgree ==
  Cleaned =>
    /\ fnRes.v.plain = Strip(fnArg)
    /\ fnRes.v.json_block = Strip(fnArg)
    /\ fnRes.v.bare_block = Strip(fnArg)
    /\ fnRes.v.json_tight = Strip(fnArg)
    /\ fnRes.v.bare_tight = Strip(fnArg)
    /\ fnRes.v.twice = fnRes.v.plain

\* The stripped text neither begins nor ends with a fence marker.
EdgeFree(c) == ~StartsWith(Strip(c), Fence) /\ ~EndsWith(Strip(c), Fence)

\* C6, amended: for every text c whose stripped form neither begins nor ends
\* with a fence marker, the cleaner gives strip(c) for c unfenced, for c in a
\* JSON-tagged fence and for c in a bare fence (unless the bare marker is
\* directly followed by a c that begins with json, which reads as the tag),
\* and cleaning the result again changes nothing.
C6_FencesAgreeOnEdgeFree ==
  (Cleaned /\ EdgeFree(fnArg)) =>
    /\ fnRes.v.plain = Strip(fnArg)
    /\ fnRes.v.json_block = Strip(fnArg)
    /\ fnRes.v.bare_block = Strip(fnArg)
    /\ fnRes.v.json_tight = Strip(fnArg)
    /\ ~StartsWith(fnArg, <<"j", "s", "o", "n">>) => fnRes.v.bare_tight = Strip(fnArg)
    /\ fnRes.v.twice = fnRes.v.plain

\* An object with a newline before it and a blank after it.
C6_Witness ==
  /\ Cleaned
  /\ fnArg = NL \o <<"{", "}">> \o <<" ">>
  /\ fnRes.v.json_block = <<"{", "}">>
  /\ fnRes.v.bare_tight = <<"{", "}">>

\* A price request whose product name was extracted and that ended without a
\* synthesis call: at the credentials test or after the search call.
PriceEndedAtSearch(w) ==
  /\ Asks(w) /\ reqs[w].pc = "done"
  /\ reqs[w].handlers = <<"_handle_price_comparison">>
  /\ reqs[w].product_query # <<>>
  /\ Last(reqs[w].calls) \in {"llm:extract", "http:search"}

UnavailablePrefix == <<"I couldn't search for prices right now. Reason: ">>

\* C7: whatever the location lookup and the search call answer (credentials
\* missing, an HTTP error status, a network error, a failed location lookup,
\* a result without 'items'), the price handler returns a text response: the
\* unavailability message with that reason, or the no-listings message;
\* never an error response, never a fault.
C7_SearchTroubleIsText ==
  \A w \in Workers :
    /\ PriceEndedAtSearch(w) =>
         /\ ReturnedOfType(reqs[w], "text")
         /\ Last(reqs[w].calls) = "llm:extract" =>
              reqs[w].result.value.content =
                UnavailablePrefix \o <<"Price search unavailable - missing API credentials">>
         /\ Last(reqs[w].calls) = "http:search" =>
              reqs[w].result.value.content \in
                { UnavailablePrefix \o <<"API returned status ", "4", "0", "3">>,
                  UnavailablePrefix \o <<"Network or request error: ", "<str(e)>">>,
                  <<"I couldn't find any specific online listings for '">>
                    \o reqs[w].product_query
                    \o <<"'. You could try a broader search term.">> }
    /\ (Asks(w) /\ reqs[w].pc = "search") =>
         /\ reqs[w].result.kind = "none"
         /\ Contains(reqs[w].search_query, <<" best prices in ">>)

\* The location lookup failed, the search went on with the default location
\* and came back without listings.
C7_Witness ==
  \E w \in Workers :
    /\ PriceEndedAtSearch(w)
    /\ Contains(reqs[w].search_query, <<"Unknown", " ", "United States">>)
    /\ reqs[w].search_results.available
    /\ reqs[w].result.value.content[1] = "I couldn't find any specific online listings for '"

\* C8 as stated: a save URL is returned only when the pass class is known to
\* exist; when the lookup or the create failed the operation ends in a fault.
C8_SignedOnlyWithClass ==
  \A w \in Workers :
    (reqs[w].op = "jwt" /\ reqs[w].pc = "done") =>
      /\ reqs[w].result.kind = "return" => reqs[w].class_created = "True"
      /\ reqs[w].class_created = "False" => reqs[w].result.kind = "raise"

Apology(r) ==
  ReturnedText(r, "text", <<"No receipt data found. Please upload a receipt image first.">>)

AllReceipts == [i \in 1..Len(receipts) |-> receipts[i].doc]

\* C9: the receipt handler answers with the apology exactly when the store
\* holds no receipt of any owner at the moment it reads it, and otherwise
\* goes on with every stored receipt; only that handler sends the apology,
\* and a question that came in when the store held a receipt never gets it.
C9_ApologyIffStoreEmpty ==
  /\ [](\A w \in Workers :
          (Asks(w) /\ Apology(reqs[w])) =>
            /\ reqs[w].handlers = <<"_handle_receipt_question">>
            /\ reqs[w].receipts_at_start = 0)
  /\ [][\A w \in Workers :
          (reqs[w].pc = "qa_receipts" /\ reqs'[w].pc # "qa_receipts") =>
            /\ Apology(reqs'[w]) <=> receipts = <<>>
            /\ receipts # <<>> =>
                 /\ reqs'[w].pc = "qa_chats"
                 /\ reqs'[w].user_receipts = AllReceipts]_vars

\* A question answered from a store that holds only another owner's receipt.
C9_Witness ==
  \E w \in Workers :
    /\ Asks(w) /\ reqs[w].pc = "done"
    /\ reqs[w].handlers = <<"_handle_receipt_question">>
    /\ ReturnedOfType(reqs[w], "text") /\ ~Apology(reqs[w])
    /\ reqs[w].user_receipts # <<>>
    /\ \A i \in 1..Len(reqs[w].user_receipts) :
         reqs[w].user_receipts[i].user_id # reqs[w].user_id

\* C10 as stated: when the cleaned reply parsed (as a JSON object) the image
\* request returns the identifier of a receipt it added, owned by the
\* submitting user; when it did not parse the request raises and adds nothing.
C10_ParsedReceiptSaved ==
  \A w \in Workers :
    (reqs[w].op = "image" /\ reqs[w].pc = "done" /\ reqs[w].content # <<>>) =>
      /\ (ParsedReply(w).ok /\ IsObj(ParsedReply(w).v)) =>
           /\ reqs[w].result.kind = "return"
           /\ Last(reqs[w].calls) = "db:receipts.add"
           /\ \E i \in 1..Len(receipts) :
                /\ receipts[i].id = reqs[w].result.value
                /\ receipts[i].doc.user_id = reqs[w].user_id
      /\ ~ParsedReply(w).ok =>
           /\ reqs[w].result.kind = "raise"
           /\ reqs[w].calls = <<"llm:image">>

\* A question the receipt handler answered: it found receipts and its model
\* call returned.
AnsweredBy(r) ==
  /\ r.op = "ask" /\ r.pc = "done"
  /\ r.handlers = <<"_handle_receipt_question">>
  /\ r.user_receipts # <<>>
  /\ r.result.kind = "return"

\* How many chat entries the request has added.
Adds(r) == Cardinality({i \in 1..Len(r.calls) : r.calls[i] = "db:chat_history.add"})

\* The workers whose question becomes answered in the step.
Answering == {w \in Workers : ~AnsweredBy(reqs[w]) /\ AnsweredBy(reqs'[w])}

\* C11: under every interleaving, a question answered by the receipt handler
\* has added exactly one chat entry, right after its model call, and the
\* collection holds an entry with its user_id, question and answer; a request
\* on any other path (empty user_id, price comparison, pass creation, the
\* apology, a model fault, an image or token request) has added none; a step
\* that answers a question appends that one entry to the collection, no other
\* step changes it, and the entries already there stay as they were: the
\* collection grows by one exactly when a general question is answered.
C11_OneEntryPerAnswer ==
  /\ [](\A w \in Workers :
          /\ AnsweredBy(reqs[w]) =>
               /\ Adds(reqs[w]) = 1
               /\ Len(reqs[w].calls) >= 2
               /\ reqs[w].calls[Len(reqs[w].calls)] = "db:chat_history.add"
               /\ reqs[w].calls[Len(reqs[w].calls) - 1] = "llm:answer"
               /\ \E i \in 1..Len(chat_history) :
                    /\ chat_history[i].user_id = reqs[w].user_id
                    /\ chat_history[i].question = reqs[w].question
                    /\ chat_history[i].answer = reqs[w].result.value.content
          /\ ~AnsweredBy(reqs[w]) => Adds(reqs[w]) = 0)
  /\ [][/\ Len(chat_history') = Len(chat_history) + Cardinality(Answering)
         /\ SubSeq(chat_history', 1, Len(chat_history)) = chat_history
         /\ \A w \in Answering :
              /\ reqs[w].pc = "qa_llm"
              /\ Last(chat_history').user_id = reqs[w].user_id
              /\ Last(chat_history').question = reqs[w].question
              /\ Last(chat_history').answer = reqs'[w].result.value.content]_vars

\* Two questions of one user answered side by side: each read the user's
\* history before the other had written, and both entries are in the
\* collection.
C11_Witness ==
  \E w, v \in Workers :
    /\ w # v /\ AnsweredBy(reqs[w]) /\ AnsweredBy(reqs[v])
    /\ reqs[w].user_id = reqs[v].user_id
    /\ reqs[w].question # reqs[v].question
    /\ reqs[w].recent_chats = <<>> /\ reqs[v].recent_chats = <<>>
    /\ Len(chat_history) = 2
    /\ chat_history[1].question # chat_history[2].question

\* The calls of the price handler, in the order of its code.
PriceCalls == <<"llm:extract", "http:location", "http:search", "llm:synthesis">>

PriceRequest(w) == Asks(w) /\ reqs[w].handlers = <<"_handle_price_comparison">>

\* The calls of the request after its classification call.
HandlerCalls(w) == SubSeq(reqs[w].calls, 2, Len(reqs[w].calls))

Made(w, name) == \E i \in 1..Len(reqs[w].calls) : reqs[w].calls[i] = name

\* The search tool answered available, with the listings field.
SearchSucceeded(r) ==
  /\ r.search_results.available
  /\ DictHas(r.search_results.results.m, K_items)

=============================================================================
